---- MODULE Spec2Model ----
(***************************************************************************)
(* gorbac: an in-memory role-based access control engine (src/rbac.go).    *)
(*                                                                         *)
(* The engine RBAC[K] holds two maps under one sync.RWMutex:               *)
(*   roles   : K -> Role[K]             (the role store)                   *)
(*   parents : K -> (K -> struct{})     (the parent-edge buckets)          *)
(*                                                                         *)
(* Specification Spec is the engine driven by one caller at a time: every  *)
(* exported method is one action, taken from its Lock/RLock to its         *)
(* Unlock/RUnlock.  The variable `last` records the last call (its         *)
(* arguments and what it returned), `was` the two maps as they were when   *)
(* that call began, and `calls` counts the calls made.  `gone` remembers   *)
(* the roles whose removal took edges with it, and `held` the result of a  *)
(* Get that the caller has kept.                                           *)
(*                                                                         *)
(* Specification SpecConc is the engine called by several goroutines at    *)
(* once, each making one call on an engine that already holds a graph.     *)
(* Every method is taken step by step: the Lock or RLock, the reads and    *)
(* the writes of the maps, the Unlock or RUnlock.  The variable `mu` is    *)
(* the sync.RWMutex and `gs` holds each goroutine's position and locals.   *)
(***************************************************************************)
EXTENDS Naturals, Sequences, FiniteSets, TLC

(***************************************************************************)
(* Bounds of the model.                                                    *)
(***************************************************************************)
\* Number of calls the caller makes on the engine.
MaxCalls == 5
\* Longest `parents` slice handed to SetParents.
MaxParents == 2

\* The role identifiers a caller uses (values of the type parameter K).
Ids == {"admin", "editor", "guest"}
\* The zero value of K, what Get returns as r.ID for an absent role.
NoId == ""
\* The permissions a caller asks about and roles are built with.
Perms == {"read"}
\* The zero value of Permission in the record of a call that takes none.
NoPerm == "none"

(***************************************************************************)
(* Errors (src/rbac.go:24-30).                                             *)
(***************************************************************************)
ErrRoleNotExist == "Role does not exist"
ErrRoleExist == "Role has already existed"
\* A nil error.
NoErr == "nil"

(***************************************************************************)
(* Role[K], Roles[K] and Permission[K] are declared outside src/rbac.go;   *)
(* rbac.go uses only the field r.ID and the method role.Permit(p).  A role *)
(* is its identifier and the set of permissions it directly grants.        *)
(***************************************************************************)
Role == [ID : Ids, permissions : SUBSET Perms]
\* The zero value of Role[K].
ZeroRole == [ID |-> NoId, permissions |-> {}]
\* role.Permit(p): does the role directly grant p?
Permit(role, p) == p \in role.permissions

(***************************************************************************)
(* AssertionFunc (src/rbac.go:33): a caller-supplied predicate, or nil.    *)
(* The hooks of the model: nil, one that returns true and one that returns *)
(* false on every call.                                                    *)
(***************************************************************************)
Hooks == {"nil", "allow", "deny"}
\* assert(rbac, id, p) for a non-nil hook.
CallAssert(assert, id, p) == assert = "allow"

VARIABLES roles, parents, last, was, calls, gone, held, mu, gs

vars == <<roles, parents, last, was, calls, gone, held, mu, gs>>

\* What the calls of one caller at a time leave alone.
concVars == <<mu, gs>>
\* What the goroutines of SpecConc leave alone.
seqVars == <<last, was, calls, gone, held>>

\* The elements of a slice.
Range(s) == {s[i] : i \in 1..Len(s)}

\* The slices of at most n elements of S, each named once, in any order.
SlicesOf(S, n) ==
    UNION {{s \in [1..k -> S] : \A i \in 1..k : \A j \in 1..k :
                                   i # j => s[i] # s[j]} : k \in 0..n}

\* The slices that list each element of the set S once: the orders in which
\* a `for ... range` over a Go map with key set S can produce its keys.
RangeOrders(S) == {s \in [1..Cardinality(S) -> S] : Range(s) = S}

(***************************************************************************)
(* The record of a call.  out is the []K a call returns, ok the result of  *)
(* IsGranted.                                                              *)
(***************************************************************************)
NoCall ==
    [op |-> "New", id |-> NoId, r |-> ZeroRole, parent |-> NoId,
     parentsArg |-> <<>>, p |-> NoPerm, assert |-> "nil",
     err |-> NoErr, out |-> <<>>, ok |-> "false"]

\* The outcomes of a permission check.  A goroutine whose stack outgrows the
\* runtime's limit dies with "fatal error: stack overflow" and takes the
\* process with it: the call never returns.
StackOverflow == "stack overflow"
Outcomes == {"true", "false", StackOverflow}
\* The outcome that stands for a returned boolean.
Bool(b) == IF b THEN "true" ELSE "false"

\* The number of nested recursionCheck frames after which the runtime gives
\* up.  A traversal of an acyclic graph nests at most one frame per role.
StackLimit == Cardinality(Ids) + 1

\* The process is running (no call has died) and the caller has calls left.
Alive == last.ok # StackOverflow /\ calls < MaxCalls

\* The goroutines of SpecConc, and the role identifiers they use.
Procs == {"g1", "g2"}
ConcIds == {"admin", "editor"}
\* No goroutine.
NoProc == "none"

\* A sync.RWMutex that nobody holds: r counts the read locks held; w is
\* "free", "pending" (a Lock has announced itself and waits for the readers
\* to leave) or "held", by the goroutine `by`.
Unlocked == [r |-> 0, w |-> "free", by |-> NoProc]

\* A goroutine that has not made its call: its position, the call (as in
\* `last`), the frames of recursionCheck on its stack, the maps as they were
\* when it got the lock, how often it has invoked the hook, looked a role
\* up and taken the lock in this call, with which arguments and after how
\* many lookups it invoked the hook, and the goroutines whose call had
\* returned when it made its own.
Idle ==
    [pc |-> "idle", c |-> NoCall, stack |-> <<>>,
     snap |-> [roles |-> << >>, parents |-> << >>],
     nhook |-> 0, nlook |-> 0, nlock |-> 0,
     hookArg |-> <<NoId, NoPerm>>, hookAt |-> 0, after |-> {}]

\* The caller holds no result of Get.
Nothing == [id |-> NoId, out |-> <<>>, fresh |-> TRUE]

\* A call begins: it is counted and the maps it finds are remembered.
Begun ==
    /\ Alive
    /\ calls' = calls + 1
    /\ was' = [roles |-> roles, parents |-> parents]
    /\ UNCHANGED held
    /\ UNCHANGED concVars

\* A call other than Remove begins.
Called ==
    /\ Begun
    /\ UNCHANGED gone

\* The role has an edge: a parent of its own, or a role it is a parent of.
HasEdge(id) ==
    \/ id \in DOMAIN parents /\ parents[id] # {}
    \/ \E rid \in DOMAIN parents : id \in parents[rid]

TypeOK ==
    /\ DOMAIN roles \subseteq Ids
    /\ \A id \in DOMAIN roles : roles[id] \in Role
    /\ DOMAIN parents \subseteq Ids
    /\ \A id \in DOMAIN parents : parents[id] \subseteq Ids
    /\ last.ok \in Outcomes
    /\ calls \in 0..MaxCalls
    /\ DOMAIN was.roles \subseteq Ids
    /\ DOMAIN was.parents \subseteq Ids
    /\ gone \subseteq Ids
    /\ held.id \in Ids \cup {NoId}
    /\ mu.r \in 0..(2 * Cardinality(Procs))
    /\ mu.w \in {"free", "pending", "held"}
    /\ mu.by \in Procs \cup {NoProc}
    /\ \A g \in Procs :
          /\ gs[g].pc \in {"idle", "lock", "wait", "in", "write", "hook",
                           "hookWait", "hookIn", "walk", "out", "done",
                           "dead"}
          /\ Len(gs[g].stack) <= StackLimit
          /\ gs[g].c.ok \in Outcomes

(***************************************************************************)
(* New (src/rbac.go:44-49): two empty maps.                                *)
(***************************************************************************)
Init ==
    /\ roles = << >>
    /\ parents = << >>
    /\ last = NoCall
    /\ was = [roles |-> << >>, parents |-> << >>]
    /\ calls = 0
    /\ gone = {}
    /\ held = Nothing
    /\ mu = Unlocked
    /\ gs = [g \in Procs |-> Idle]

\* A faulty SetParents: one loop that checks and adds each parent in turn,
\* so the parents that precede a missing one are added before it fails.
SetParentsPartial(id, ps) ==
    /\ Called
    /\ IF id \notin DOMAIN roles
       THEN /\ last' = [NoCall EXCEPT !.op = "SetParents", !.id = id,
                            !.parentsArg = ps, !.err = ErrRoleNotExist]
            /\ UNCHANGED <<roles, parents>>
       ELSE LET bad == {i \in 1..Len(ps) : ps[i] \notin DOMAIN roles}
                stop == IF bad = {} THEN Len(ps) + 1
                        ELSE CHOOSE i \in bad : \A j \in bad : i <= j
                done == {ps[i] : i \in 1..(stop - 1)}
            IN  /\ parents' =
                     [x \in DOMAIN parents \cup {id} |->
                         IF x = id
                         THEN (IF id \in DOMAIN parents THEN parents[id]
                               ELSE {}) \cup done
                         ELSE parents[x]]
                /\ last' = [NoCall EXCEPT !.op = "SetParents", !.id = id,
                                !.parentsArg = ps,
                                !.err = IF bad = {} THEN NoErr
                                        ELSE ErrRoleNotExist]
                /\ UNCHANGED roles

\* A faulty SetParents: the bucket is replaced by the new list.
SetParentsReplace(id, ps) ==
    /\ Called
    /\ IF id \notin DOMAIN roles
          \/ \E i \in 1..Len(ps) : ps[i] \notin DOMAIN roles
       THEN /\ last' = [NoCall EXCEPT !.op = "SetParents", !.id = id,
                            !.parentsArg = ps, !.err = ErrRoleNotExist]
            /\ UNCHANGED <<roles, parents>>
       ELSE /\ parents' =
                 [x \in DOMAIN parents \cup {id} |->
                     IF x = id THEN Range(ps) ELSE parents[x]]
            /\ last' = [NoCall EXCEPT !.op = "SetParents", !.id = id,
                            !.parentsArg = ps]
            /\ UNCHANGED roles

(***************************************************************************)
(* SetParents (src/rbac.go:54-72).                                         *)
(***************************************************************************)
SetParents(id, ps) ==
    /\ Called
    /\ IF id \notin DOMAIN roles
       THEN /\ last' = [NoCall EXCEPT !.op = "SetParents", !.id = id,
                            !.parentsArg = ps, !.err = ErrRoleNotExist]
            /\ UNCHANGED <<roles, parents>>
       ELSE IF \E i \in 1..Len(ps) : ps[i] \notin DOMAIN roles
       THEN /\ last' = [NoCall EXCEPT !.op = "SetParents", !.id = id,
                            !.parentsArg = ps, !.err = ErrRoleNotExist]
            /\ UNCHANGED <<roles, parents>>
       ELSE /\ parents' =
                 [x \in DOMAIN parents \cup {id} |->
                     IF x = id
                     THEN (IF id \in DOMAIN parents THEN parents[id] ELSE {})
                              \cup Range(ps)
                     ELSE parents[x]]
            /\ last' = [NoCall EXCEPT !.op = "SetParents", !.id = id,
                            !.parentsArg = ps]
            /\ UNCHANGED roles

(***************************************************************************)
(* GetParents (src/rbac.go:78-93).  The slice is built by ranging over the *)
(* bucket, in an order the map chooses; a role without a bucket, or with   *)
(* an empty one, gets a nil slice.  (The method takes mutex.Lock, the      *)
(* exclusive lock, not RLock: lines 79-80.)                                *)
(***************************************************************************)
GetParentsOut(id) ==
    IF id \notin DOMAIN roles THEN {<<>>}
    ELSE IF id \notin DOMAIN parents THEN {<<>>}
    ELSE RangeOrders(parents[id])

\* A faulty GetParents: a missing role is reported as a role without parents.
GetParentsErrNone(id) == NoErr

GetParentsErr(id) ==
    IF id \notin DOMAIN roles THEN ErrRoleNotExist ELSE NoErr

GetParents(id) ==
    /\ Called
    /\ \E out \in GetParentsOut(id) :
          last' = [NoCall EXCEPT !.op = "GetParents", !.id = id,
                       !.err = GetParentsErr(id), !.out = out]
    /\ UNCHANGED <<roles, parents>>

(***************************************************************************)
(* SetParent (src/rbac.go:98-113).                                         *)
(***************************************************************************)
SetParent(id, parent) ==
    /\ Called
    /\ IF id \notin DOMAIN roles \/ parent \notin DOMAIN roles
       THEN /\ last' = [NoCall EXCEPT !.op = "SetParent", !.id = id,
                            !.parent = parent, !.err = ErrRoleNotExist]
            /\ UNCHANGED <<roles, parents>>
       ELSE /\ parents' =
                 [x \in DOMAIN parents \cup {id} |->
                     IF x = id
                     THEN (IF id \in DOMAIN parents THEN parents[id] ELSE {})
                              \cup {parent}
                     ELSE parents[x]]
            /\ last' = [NoCall EXCEPT !.op = "SetParent", !.id = id,
                            !.parent = parent]
            /\ UNCHANGED roles

\* A faulty RemoveParent: an edge that does not exist is an error.
RemoveParentStrict(id, parent) ==
    /\ Called
    /\ IF \/ id \notin DOMAIN roles
          \/ parent \notin DOMAIN roles
          \/ id \notin DOMAIN parents
          \/ parent \notin parents[id]
       THEN /\ last' = [NoCall EXCEPT !.op = "RemoveParent", !.id = id,
                            !.parent = parent, !.err = ErrRoleNotExist]
            /\ UNCHANGED <<roles, parents>>
       ELSE /\ parents' =
                 [x \in DOMAIN parents |->
                     IF x = id THEN parents[id] \ {parent} ELSE parents[x]]
            /\ last' = [NoCall EXCEPT !.op = "RemoveParent", !.id = id,
                            !.parent = parent]
            /\ UNCHANGED roles

(***************************************************************************)
(* RemoveParent (src/rbac.go:118-129).  delete on the nil map that         *)
(* rbac.parents[id] yields for a role without a bucket is a no-op, and no  *)
(* bucket is created.                                                      *)
(***************************************************************************)
RemoveParent(id, parent) ==
    /\ Called
    /\ IF id \notin DOMAIN roles \/ parent \notin DOMAIN roles
       THEN /\ last' = [NoCall EXCEPT !.op = "RemoveParent", !.id = id,
                            !.parent = parent, !.err = ErrRoleNotExist]
            /\ UNCHANGED <<roles, parents>>
       ELSE /\ parents' =
                 [x \in DOMAIN parents |->
                     IF x = id THEN parents[id] \ {parent} ELSE parents[x]]
            /\ last' = [NoCall EXCEPT !.op = "RemoveParent", !.id = id,
                            !.parent = parent]
            /\ UNCHANGED roles

\* A faulty Add: the role is stored before the identifier is looked up.
AddOverwrite(r) ==
    /\ Called
    /\ roles' = [x \in DOMAIN roles \cup {r.ID} |->
                    IF x = r.ID THEN r ELSE roles[x]]
    /\ last' = [NoCall EXCEPT !.op = "Add", !.id = r.ID, !.r = r,
                    !.err = IF r.ID \in DOMAIN roles THEN ErrRoleExist
                            ELSE NoErr]
    /\ UNCHANGED parents

(***************************************************************************)
(* Add (src/rbac.go:132-141).                                              *)
(***************************************************************************)
Add(r) ==
    /\ Called
    /\ IF r.ID \notin DOMAIN roles
       THEN /\ roles' = [x \in DOMAIN roles \cup {r.ID} |->
                            IF x = r.ID THEN r ELSE roles[x]]
            /\ last' = [NoCall EXCEPT !.op = "Add", !.id = r.ID, !.r = r]
            /\ UNCHANGED parents
       ELSE /\ last' = [NoCall EXCEPT !.op = "Add", !.id = r.ID, !.r = r,
                            !.err = ErrRoleExist]
            /\ UNCHANGED <<roles, parents>>

\* A faulty Remove: the role and its own bucket go, the edges that name it
\* in other buckets stay.
RemoveOwnBucketOnly(id) ==
    /\ Begun
    /\ IF id \in DOMAIN roles
       THEN /\ roles' = [x \in DOMAIN roles \ {id} |-> roles[x]]
            /\ parents' = [rid \in DOMAIN parents \ {id} |-> parents[rid]]
            /\ gone' = IF HasEdge(id) THEN gone \cup {id} ELSE gone
            /\ last' = [NoCall EXCEPT !.op = "Remove", !.id = id]
       ELSE /\ last' = [NoCall EXCEPT !.op = "Remove", !.id = id,
                            !.err = ErrRoleNotExist]
            /\ UNCHANGED <<roles, parents, gone>>

\* A faulty Remove: the role goes, every edge stays.
RemoveRoleOnly(id) ==
    /\ Begun
    /\ IF id \in DOMAIN roles
       THEN /\ roles' = [x \in DOMAIN roles \ {id} |-> roles[x]]
            /\ gone' = IF HasEdge(id) THEN gone \cup {id} ELSE gone
            /\ last' = [NoCall EXCEPT !.op = "Remove", !.id = id]
            /\ UNCHANGED parents
       ELSE /\ last' = [NoCall EXCEPT !.op = "Remove", !.id = id,
                            !.err = ErrRoleNotExist]
            /\ UNCHANGED <<roles, parents, gone>>

\* A faulty Remove: the role goes from the store and from the other
\* buckets, its own bucket stays.
RemoveKeepsOwnBucket(id) ==
    /\ Begun
    /\ IF id \in DOMAIN roles
       THEN /\ roles' = [x \in DOMAIN roles \ {id} |-> roles[x]]
            /\ parents' = [rid \in DOMAIN parents |->
                              IF rid = id THEN parents[rid]
                              ELSE parents[rid] \ {id}]
            /\ gone' = IF HasEdge(id) THEN gone \cup {id} ELSE gone
            /\ last' = [NoCall EXCEPT !.op = "Remove", !.id = id]
       ELSE /\ last' = [NoCall EXCEPT !.op = "Remove", !.id = id,
                            !.err = ErrRoleNotExist]
            /\ UNCHANGED <<roles, parents, gone>>

(***************************************************************************)
(* Remove (src/rbac.go:144-165).  The loop ranges over every bucket:       *)
(* id's own bucket is deleted, and id is deleted from every other bucket   *)
(* that holds it (deleting from a Go map while ranging over it is          *)
(* defined; an entry deleted before it is reached is not produced).        *)
(***************************************************************************)
Remove(id) ==
    /\ Begun
    /\ IF id \in DOMAIN roles
       THEN /\ roles' = [x \in DOMAIN roles \ {id} |-> roles[x]]
            /\ parents' = [rid \in DOMAIN parents \ {id} |->
                              parents[rid] \ {id}]
            /\ gone' = IF HasEdge(id) THEN gone \cup {id} ELSE gone
            /\ last' = [NoCall EXCEPT !.op = "Remove", !.id = id]
       ELSE /\ last' = [NoCall EXCEPT !.op = "Remove", !.id = id,
                            !.err = ErrRoleNotExist]
            /\ UNCHANGED <<roles, parents, gone>>

\* A faulty Get: the slice it returns shares its storage with the bucket.
GetResultIsBucket == FALSE

\* Get appends the parents to its named result, a nil slice (lines 168,
\* 172-174): the slice it returns has storage of its own, which the engine
\* keeps no reference to.
GetResultIsFresh == TRUE

(***************************************************************************)
(* Get (src/rbac.go:168-180).  Ranging over the nil map of a role without  *)
(* a bucket appends nothing.                                               *)
(***************************************************************************)
GetOut(id) ==
    IF id \in DOMAIN roles /\ id \in DOMAIN parents
    THEN RangeOrders(parents[id])
    ELSE {<<>>}

Get(id) ==
    /\ Called
    /\ \E out \in GetOut(id) :
          last' = [NoCall EXCEPT
                       !.op = "Get", !.id = id,
                       !.r = IF id \in DOMAIN roles THEN roles[id] ELSE ZeroRole,
                       !.err = IF id \in DOMAIN roles THEN NoErr
                               ELSE ErrRoleNotExist,
                       !.out = out]
    /\ UNCHANGED <<roles, parents>>

\* A faulty recursionCheck: the loop returns false at the first parent that
\* does not grant, so every branch has to grant.
RECURSIVE recursionCheckAllBranches(_, _, _)
recursionCheckAllBranches(id, p, depth) ==
    IF depth >= StackLimit THEN {StackOverflow}
    ELSE IF id \notin DOMAIN roles THEN {"false"}
    ELSE IF Permit(roles[id], p) THEN {"true"}
    ELSE IF id \notin DOMAIN parents THEN {"false"}
    ELSE LET live == {pID \in parents[id] : pID \in DOMAIN roles}
             sub == [pID \in live |->
                        recursionCheckAllBranches(pID, p, depth + 1)]
         IN  {o \in Outcomes :
                 \/ o = "true" /\ live # {}
                        /\ \A pID \in live : "true" \in sub[pID]
                 \/ o = StackOverflow
                        /\ \E pID \in live : StackOverflow \in sub[pID]
                 \/ o = "false"
                        /\ (live = {} \/ \E pID \in live : "false" \in sub[pID])}

\* A faulty recursionCheck: the parents are searched before the role's own
\* permissions are looked at.
RECURSIVE recursionCheckParentsFirst(_, _, _)
recursionCheckParentsFirst(id, p, depth) ==
    IF depth >= StackLimit THEN {StackOverflow}
    ELSE IF id \notin DOMAIN roles THEN {"false"}
    ELSE LET live == IF id \in DOMAIN parents
                     THEN {pID \in parents[id] : pID \in DOMAIN roles}
                     ELSE {}
             sub == [pID \in live |->
                        recursionCheckParentsFirst(pID, p, depth + 1)]
         IN  {o \in Outcomes :
                 \/ o = "true" /\ \E pID \in live : "true" \in sub[pID]
                 \/ o = StackOverflow
                        /\ \E pID \in live : StackOverflow \in sub[pID]
                 \/ o = Bool(Permit(roles[id], p))
                        /\ \A pID \in live : "false" \in sub[pID]}

\* A recursionCheck with a guard the code does not have: a role that is
\* already on the path of the traversal is not entered again.
RECURSIVE walkGuarded(_, _, _)
walkGuarded(id, p, path) ==
    IF id \notin DOMAIN roles THEN {"false"}
    ELSE IF Permit(roles[id], p) THEN {"true"}
    ELSE IF id \notin DOMAIN parents THEN {"false"}
    ELSE LET live == {pID \in parents[id] :
                         pID \in DOMAIN roles /\ pID \notin path \cup {id}}
             sub == [pID \in live |-> walkGuarded(pID, p, path \cup {id})]
         IN  {o \in {"true", "false"} :
                 \/ o = "true" /\ \E pID \in live : "true" \in sub[pID]
                 \/ o = "false" /\ \A pID \in live : "false" \in sub[pID]}

recursionCheckGuarded(id, p, depth) == walkGuarded(id, p, {})

(***************************************************************************)
(* recursionCheck (src/rbac.go:198-214): the set of outcomes the call can  *)
(* have with `depth` frames of it already on the stack.  The loop over the *)
(* parents runs in an order the map chooses and returns at the first       *)
(* parent whose call returns true, so                                      *)
(*   - it can return true iff the call on some parent can (that parent     *)
(*     comes first);                                                       *)
(*   - it can die iff the call on some parent can (that parent comes       *)
(*     first);                                                             *)
(*   - it can return false iff the call on every parent can.               *)
(* A parent that is not in rbac.roles is skipped.                          *)
(***************************************************************************)
RECURSIVE recursionCheck(_, _, _)
recursionCheck(id, p, depth) ==
    IF depth >= StackLimit THEN {StackOverflow}
    ELSE IF id \notin DOMAIN roles THEN {"false"}
    ELSE IF Permit(roles[id], p) THEN {"true"}
    ELSE IF id \notin DOMAIN parents THEN {"false"}
    ELSE LET live == {pID \in parents[id] : pID \in DOMAIN roles}
             sub == [pID \in live |-> recursionCheck(pID, p, depth + 1)]
         IN  {o \in Outcomes :
                 \/ o = "true" /\ \E pID \in live : "true" \in sub[pID]
                 \/ o = StackOverflow
                        /\ \E pID \in live : StackOverflow \in sub[pID]
                 \/ o = "false" /\ \A pID \in live : "false" \in sub[pID]}

\* A faulty isGranted: a hook, when there is one, decides alone.
isGrantedHookDecides(id, p, assert) ==
    IF assert # "nil" THEN {Bool(CallAssert(assert, id, p))}
    ELSE recursionCheck(id, p, 0)

(***************************************************************************)
(* isGranted (src/rbac.go:191-196).                                        *)
(***************************************************************************)
isGranted(id, p, assert) ==
    IF assert # "nil" /\ ~CallAssert(assert, id, p) THEN {"false"}
    ELSE recursionCheck(id, p, 0)

(***************************************************************************)
(* IsGranted (src/rbac.go:183-189).                                        *)
(***************************************************************************)
IsGranted(id, p, assert) ==
    /\ Called
    /\ \E ok \in isGranted(id, p, assert) :
          last' = [NoCall EXCEPT !.op = "IsGranted", !.id = id, !.p = p,
                       !.assert = assert, !.ok = ok]
    /\ UNCHANGED <<roles, parents>>

(***************************************************************************)
(* The caller keeps the slice that the Get it has just made returned, to   *)
(* look at it later.                                                       *)
(***************************************************************************)
Keep ==
    /\ Alive
    /\ last.op = "Get" /\ last.err = NoErr
    /\ calls' = calls + 1
    /\ held' = [id |-> last.id, out |-> last.out, fresh |-> GetResultIsFresh]
    /\ UNCHANGED <<roles, parents, last, was, gone>>
    /\ UNCHANGED concVars

\* The parent ids the caller finds in the slice it has kept.
Held == IF held.fresh THEN Range(held.out)
        ELSE IF held.id \in DOMAIN parents THEN parents[held.id] ELSE {}

Next ==
    \/ \E r \in Role : Add(r)
    \/ \E id \in Ids : Remove(id)
    \/ \E id \in Ids : \E ps \in SlicesOf(Ids, MaxParents) : SetParents(id, ps)
    \/ \E id \in Ids : \E parent \in Ids : SetParent(id, parent)
    \/ \E id \in Ids : \E parent \in Ids : RemoveParent(id, parent)
    \/ \E id \in Ids : GetParents(id)
    \/ \E id \in Ids : Get(id)
    \/ \E id \in Ids : \E p \in Perms : \E assert \in Hooks :
          IsGranted(id, p, assert)
    \/ Keep

Spec == Init /\ [][Next]_vars

(***************************************************************************)
(* The engine under concurrent callers.                                    *)
(*                                                                         *)
(* A call is the record of `last`; a hook named after a read of the engine *)
(* ("Get", "GetParents", "IsGranted") is an AssertionFunc that calls that  *)
(* read on the engine and the role id it is handed (src/rbac.go:33, 192)   *)
(* and then returns true.                                                  *)
(***************************************************************************)
Mutations == {"Add", "Remove", "SetParents", "SetParent", "RemoveParent"}
Reads == {"Get", "GetParents", "IsGranted"}
HookCalls == {"Get", "GetParents", "IsGranted"}

\* A faulty locking: SetParent takes the lock in shared mode.
LockKindSetParentShared(op) ==
    IF op \in {"Get", "IsGranted", "SetParent"} THEN "RLock" ELSE "Lock"

\* A faulty locking: Remove takes the lock in shared mode.
LockKindRemoveShared(op) ==
    IF op \in {"Get", "IsGranted", "Remove"} THEN "RLock" ELSE "Lock"

\* The first statement of each method: Get and IsGranted call
\* rbac.mutex.RLock (src/rbac.go:169, 185); SetParents, GetParents,
\* SetParent, RemoveParent, Add and Remove call rbac.mutex.Lock (lines 55,
\* 79, 99, 119, 133, 145).
LockKind(op) ==
    IF op \in {"Get", "IsGranted"} THEN "RLock" ELSE "Lock"

\* The error a method returns when it finds the role store `rs`.
ErrOf(rs, c) ==
    CASE c.op = "Add" ->
           IF c.r.ID \in DOMAIN rs THEN ErrRoleExist ELSE NoErr
      [] c.op \in {"Remove", "Get", "GetParents"} ->
           IF c.id \in DOMAIN rs THEN NoErr ELSE ErrRoleNotExist
      [] c.op \in {"SetParent", "RemoveParent"} ->
           IF c.id \in DOMAIN rs /\ c.parent \in DOMAIN rs
           THEN NoErr ELSE ErrRoleNotExist
      [] c.op = "SetParents" ->
           IF c.id \in DOMAIN rs /\ Range(c.parentsArg) \subseteq DOMAIN rs
           THEN NoErr ELSE ErrRoleNotExist
      [] OTHER -> NoErr

\* rbac.roles after the writes of a method that found no error.
RolesAfter(rs, c) ==
    CASE c.op = "Add" ->
           [x \in DOMAIN rs \cup {c.r.ID} |->
               IF x = c.r.ID THEN c.r ELSE rs[x]]
      [] c.op = "Remove" -> [x \in DOMAIN rs \ {c.id} |-> rs[x]]
      [] OTHER -> rs

\* rbac.parents after the writes of a method that found no error.
ParentsAfter(ps, c) ==
    LET bucket == IF c.id \in DOMAIN ps THEN ps[c.id] ELSE {}
    IN  CASE c.op = "SetParents" ->
               [x \in DOMAIN ps \cup {c.id} |->
                   IF x = c.id THEN bucket \cup Range(c.parentsArg)
                   ELSE ps[x]]
          [] c.op = "SetParent" ->
               [x \in DOMAIN ps \cup {c.id} |->
                   IF x = c.id THEN bucket \cup {c.parent} ELSE ps[x]]
          [] c.op = "RemoveParent" ->
               [x \in DOMAIN ps |->
                   IF x = c.id THEN ps[x] \ {c.parent} ELSE ps[x]]
          [] c.op = "Remove" ->
               [rid \in DOMAIN ps \ {c.id} |-> ps[rid] \ {c.id}]
          [] OTHER -> ps

\* The roles the goroutines add, and the graphs that one caller can have
\* built over ConcIds before the goroutines start: "editor" was added with
\* every permission and "admin" with none, and every edge joins roles of
\* the store.
ConcRoles == {r \in Role : r.ID \in ConcIds}
RoleMaps ==
    {[x \in D |-> [ID |-> x,
                   permissions |-> IF x = "editor" THEN Perms ELSE {}]] :
        D \in SUBSET ConcIds}
ParentMaps(rs) ==
    UNION {[D -> SUBSET DOMAIN rs] : D \in SUBSET DOMAIN rs}

\* The calls a goroutine can make.
ConcCalls ==
    {[NoCall EXCEPT !.op = "Add", !.id = r.ID, !.r = r] : r \in ConcRoles}
    \cup {[NoCall EXCEPT !.op = op, !.id = id] :
             op \in {"Remove", "Get", "GetParents"}, id \in ConcIds}
    \cup {[NoCall EXCEPT !.op = "SetParents", !.id = id, !.parentsArg = ps] :
             id \in ConcIds, ps \in RangeOrders(ConcIds)}
    \cup {[NoCall EXCEPT !.op = op, !.id = id, !.parent = parent] :
             op \in {"SetParent", "RemoveParent"},
             id \in ConcIds, parent \in ConcIds}
    \cup {[NoCall EXCEPT !.op = "IsGranted", !.id = id, !.p = p,
                         !.assert = assert] :
             id \in ConcIds, p \in Perms, assert \in Hooks \cup HookCalls}

InitConc ==
    /\ roles \in RoleMaps
    /\ parents \in ParentMaps(roles)
    /\ last = NoCall
    /\ was = [roles |-> << >>, parents |-> << >>]
    /\ calls = 0
    /\ gone = {}
    /\ held = Nothing
    /\ mu = Unlocked
    /\ gs = [g \in Procs |-> Idle]

\* A stack overflow ends the process, and with it every goroutine.
Running == \A g \in Procs : gs[g].pc # "dead"

\* The goroutine is between the return of its Lock or RLock and its Unlock
\* or RUnlock.
InCS(g) ==
    gs[g].pc \in {"in", "write", "hook", "hookWait", "hookIn", "walk", "out"}

\* A step of goroutine g that touches neither map.
Step(g, rec) ==
    /\ gs' = [gs EXCEPT ![g] = rec]
    /\ UNCHANGED <<roles, parents>>
    /\ UNCHANGED seqVars

\* The goroutine has the lock: it remembers the maps as they are now.
Locked(g, pc) ==
    [gs[g] EXCEPT !.pc = pc,
                  !.snap = [roles |-> roles, parents |-> parents],
                  !.nlock = @ + 1]

(***************************************************************************)
(* A goroutine calls a method of the engine.  The goroutines are alike, so *)
(* the one that calls first is named g1.                                   *)
(***************************************************************************)
Invoke(g, c) ==
    /\ Running
    /\ gs[g].pc = "idle"
    /\ g = "g2" => gs["g1"].pc # "idle"
    /\ Step(g, [Idle EXCEPT !.pc = "lock", !.c = c,
                            !.after = {h \in Procs : gs[h].pc = "done"}])
    /\ UNCHANGED mu

(***************************************************************************)
(* rbac.mutex.RLock() of Get and IsGranted (src/rbac.go:169, 185).  RLock  *)
(* returns when no Lock holds the mutex or is waiting for it: a Lock that  *)
(* waits keeps new readers out.                                            *)
(***************************************************************************)
RLock(g) ==
    /\ Running
    /\ gs[g].pc = "lock"
    /\ LockKind(gs[g].c.op) = "RLock"
    /\ mu.w = "free"
    /\ mu' = [mu EXCEPT !.r = @ + 1]
    /\ Step(g, Locked(g, "in"))

(***************************************************************************)
(* rbac.mutex.Lock() of the other methods (src/rbac.go:55, 79, 99, 119,    *)
(* 133, 145).  Lock first excludes the other Locks, then announces itself  *)
(* to the readers; it returns at once when there is no reader, and waits   *)
(* for the last RUnlock otherwise.                                         *)
(***************************************************************************)
Lock(g) ==
    /\ Running
    /\ gs[g].pc = "lock"
    /\ LockKind(gs[g].c.op) = "Lock"
    /\ mu.w = "free"
    /\ IF mu.r = 0
       THEN /\ mu' = [mu EXCEPT !.w = "held", !.by = g]
            /\ Step(g, Locked(g, "in"))
       ELSE /\ mu' = [mu EXCEPT !.w = "pending", !.by = g]
            /\ Step(g, [gs[g] EXCEPT !.pc = "wait"])

\* The last reader has left: the Lock that waited returns, in the method
\* ("wait") or in the read that a hook has called ("hookWait").
Granted(g) ==
    /\ Running
    /\ gs[g].pc \in {"wait", "hookWait"}
    /\ mu.w = "pending" /\ mu.by = g
    /\ mu.r = 0
    /\ mu' = [mu EXCEPT !.w = "held"]
    /\ Step(g, IF gs[g].pc = "wait" THEN Locked(g, "in")
               ELSE [gs[g] EXCEPT !.pc = "hookIn"])

(***************************************************************************)
(* The reads of the maps of every method but IsGranted: the existence      *)
(* checks (src/rbac.go:57-64, 81-83, 101-106, 121-126, 134, 146, 171) and, *)
(* in Get and GetParents, the loop that builds the slice (lines 84-92,     *)
(* 172-174).  A mutation that found an error, and a read, have only the    *)
(* unlock left.                                                            *)
(***************************************************************************)
Validate(g) ==
    LET c == gs[g].c
        err == ErrOf(roles, c)
    IN  /\ Running
        /\ gs[g].pc = "in"
        /\ c.op # "IsGranted"
        /\ UNCHANGED mu
        /\ CASE c.op = "Get" ->
                  \E out \in GetOut(c.id) :
                     Step(g, [gs[g] EXCEPT
                                !.pc = "out", !.c.err = err, !.c.out = out,
                                !.c.r = IF c.id \in DOMAIN roles
                                        THEN roles[c.id] ELSE ZeroRole])
             [] c.op = "GetParents" ->
                  \E out \in GetParentsOut(c.id) :
                     Step(g, [gs[g] EXCEPT
                                !.pc = "out", !.c.err = err, !.c.out = out])
             [] OTHER ->
                  Step(g, [gs[g] EXCEPT
                             !.pc = IF err = NoErr THEN "write" ELSE "out",
                             !.c.err = err])

(***************************************************************************)
(* The writes of a mutation (src/rbac.go:65-70, 107-111, 127, 135,         *)
(* 147-159).                                                               *)
(***************************************************************************)
Write(g) ==
    /\ Running
    /\ gs[g].pc = "write"
    /\ roles' = RolesAfter(roles, gs[g].c)
    /\ parents' = ParentsAfter(parents, gs[g].c)
    /\ gs' = [gs EXCEPT ![g].pc = "out"]
    /\ UNCHANGED mu
    /\ UNCHANGED seqVars

\* A faulty unlock: a method that returns an error returns with the lock.
UnlockUnlessError(g) ==
    /\ Running
    /\ gs[g].pc = "out"
    /\ mu' = IF gs[g].c.err # NoErr THEN mu
             ELSE IF LockKind(gs[g].c.op) = "RLock"
             THEN [mu EXCEPT !.r = @ - 1]
             ELSE [mu EXCEPT !.w = "free", !.by = NoProc]
    /\ Step(g, [Idle EXCEPT
                   !.pc = "done", !.c = gs[g].c,
                   !.snap = [roles |-> roles, parents |-> parents]])

(***************************************************************************)
(* rbac.mutex.Unlock() and RUnlock(), deferred (src/rbac.go:56, 80, 100,   *)
(* 120) or the last statement before the return (lines 139, 163, 178,      *)
(* 187); the method returns.  Of its locals the results are left, and      *)
(* `snap` is now the maps as it leaves them.                               *)
(***************************************************************************)
Unlock(g) ==
    /\ Running
    /\ gs[g].pc = "out"
    /\ mu' = IF LockKind(gs[g].c.op) = "RLock"
             THEN [mu EXCEPT !.r = @ - 1]
             ELSE [mu EXCEPT !.w = "free", !.by = NoProc]
    /\ Step(g, [Idle EXCEPT
                   !.pc = "done", !.c = gs[g].c,
                   !.snap = [roles |-> roles, parents |-> parents]])

\* The frame of a call recursionCheck(id, p): "call" before its lookups of
\* id (src/rbac.go:199-203), "loop" in the loop over the parents, of which
\* it has been handed those in `seen`.
Frame(id) == [id |-> id, st |-> "call", seen |-> {}]

(***************************************************************************)
(* isGranted up to the call of recursionCheck (src/rbac.go:191-195): the   *)
(* hook, when there is one, is called with the arguments of IsGranted.  A  *)
(* hook that calls a read of the engine is then at the first statement of  *)
(* that read, its Lock or RLock.                                           *)
(***************************************************************************)
CallHook(g) ==
    LET c == gs[g].c
        invoked == [gs[g] EXCEPT !.nhook = @ + 1,
                                 !.hookArg = <<c.id, c.p>>,
                                 !.hookAt = gs[g].nlook]
    IN  /\ Running
        /\ gs[g].pc = "in"
        /\ c.op = "IsGranted"
        /\ UNCHANGED mu
        /\ IF c.assert = "nil"
           THEN Step(g, [gs[g] EXCEPT !.pc = "walk",
                                      !.stack = <<Frame(c.id)>>])
           ELSE IF c.assert \in HookCalls
           THEN Step(g, [invoked EXCEPT !.pc = "hook"])
           ELSE IF CallAssert(c.assert, c.id, c.p)
           THEN Step(g, [invoked EXCEPT !.pc = "walk",
                                        !.stack = <<Frame(c.id)>>])
           ELSE Step(g, [invoked EXCEPT !.pc = "out", !.c.ok = "false"])

(***************************************************************************)
(* The Lock or RLock of the read that the hook calls, by a goroutine that  *)
(* holds the read lock of IsGranted.  A Lock announces itself and waits    *)
(* for the readers to leave, the caller among them.                        *)
(***************************************************************************)
HookLock(g) ==
    /\ Running
    /\ gs[g].pc = "hook"
    /\ mu.w = "free"
    /\ IF LockKind(gs[g].c.assert) = "RLock"
       THEN /\ mu' = [mu EXCEPT !.r = @ + 1]
            /\ Step(g, [gs[g] EXCEPT !.pc = "hookIn"])
       ELSE IF mu.r = 0
       THEN /\ mu' = [mu EXCEPT !.w = "held", !.by = g]
            /\ Step(g, [gs[g] EXCEPT !.pc = "hookIn"])
       ELSE /\ mu' = [mu EXCEPT !.w = "pending", !.by = g]
            /\ Step(g, [gs[g] EXCEPT !.pc = "hookWait"])

(***************************************************************************)
(* The read that the hook called does its lookups and unlocks; the hook    *)
(* returns true and isGranted calls recursionCheck (src/rbac.go:195).  An  *)
(* IsGranted called by the hook can end in a stack overflow as any other.  *)
(***************************************************************************)
HookReturn(g) ==
    LET c == gs[g].c
    IN  /\ Running
        /\ gs[g].pc = "hookIn"
        /\ \E o \in IF c.assert = "IsGranted"
                    THEN isGranted(c.id, c.p, "nil") ELSE {"true"} :
              IF o = StackOverflow
              THEN /\ Step(g, [gs[g] EXCEPT !.pc = "dead",
                                            !.c.ok = StackOverflow])
                   /\ UNCHANGED mu
              ELSE /\ mu' = IF LockKind(c.assert) = "RLock"
                            THEN [mu EXCEPT !.r = @ - 1]
                            ELSE [mu EXCEPT !.w = "free", !.by = NoProc]
                   /\ Step(g, [gs[g] EXCEPT !.pc = "walk",
                                            !.stack = <<Frame(c.id)>>])

\* recursionCheck returns b: true goes up through every caller (lines
\* 206-208); false goes to the loop of the caller, or out of isGranted.
Return(rec, b) ==
    IF b \/ Len(rec.stack) = 1
    THEN [rec EXCEPT !.pc = "out", !.stack = <<>>, !.c.ok = Bool(b)]
    ELSE [rec EXCEPT !.stack = SubSeq(@, 1, Len(@) - 1)]

\* A faulty recursion: the loop calls isGranted on the parent, and with it
\* the hook.
DescendThroughHook(rec, pID) ==
    IF Len(rec.stack) >= StackLimit
    THEN [rec EXCEPT !.pc = "dead", !.c.ok = StackOverflow]
    ELSE [rec EXCEPT !.stack = Append(@, Frame(pID)),
                     !.nhook = IF rec.c.assert = "nil" THEN @ ELSE @ + 1]

\* The loop calls recursionCheck on the parent pID (src/rbac.go:206); the
\* stack has room for StackLimit frames.
Descend(rec, pID) ==
    IF Len(rec.stack) >= StackLimit
    THEN [rec EXCEPT !.pc = "dead", !.c.ok = StackOverflow]
    ELSE [rec EXCEPT !.stack = Append(@, Frame(pID))]

(***************************************************************************)
(* One step of recursionCheck (src/rbac.go:198-214) in its top frame: the  *)
(* lookups of the role and its bucket (lines 199-203), or one round of the *)
(* loop over the bucket (lines 204-209), which takes the parents in an     *)
(* order the map chooses.                                                  *)
(***************************************************************************)
Walk(g) ==
    LET n == Len(gs[g].stack)
        top == gs[g].stack[n]
        looked == [gs[g] EXCEPT !.nlook = @ + 1]
        todo == (IF top.id \in DOMAIN parents THEN parents[top.id] ELSE {})
                    \ top.seen
    IN  /\ Running
        /\ gs[g].pc = "walk"
        /\ UNCHANGED mu
        /\ IF top.st = "call"
           THEN IF top.id \notin DOMAIN roles
                THEN Step(g, Return(looked, FALSE))
                ELSE IF Permit(roles[top.id], gs[g].c.p)
                THEN Step(g, Return(looked, TRUE))
                ELSE IF top.id \notin DOMAIN parents
                THEN Step(g, Return(looked, FALSE))
                ELSE Step(g, [looked EXCEPT !.stack[n].st = "loop"])
           ELSE IF todo = {}
                THEN Step(g, Return(gs[g], FALSE))
                ELSE \E pID \in todo :
                        LET handed == [looked EXCEPT
                                          !.stack[n].seen = @ \cup {pID}]
                        IN  IF pID \in DOMAIN roles
                            THEN Step(g, Descend(handed, pID))
                            ELSE Step(g, handed)

NextConc ==
    \/ \E g \in Procs : \E c \in ConcCalls : Invoke(g, c)
    \/ \E g \in Procs : RLock(g)
    \/ \E g \in Procs : Lock(g)
    \/ \E g \in Procs : Granted(g)
    \/ \E g \in Procs : Validate(g)
    \/ \E g \in Procs : Write(g)
    \/ \E g \in Procs : CallHook(g)
    \/ \E g \in Procs : HookLock(g)
    \/ \E g \in Procs : HookReturn(g)
    \/ \E g \in Procs : Walk(g)
    \/ \E g \in Procs : Unlock(g)

SpecConc == InitConc /\ [][NextConc]_vars

(***************************************************************************)
(* The inheritance graph of the current state.                             *)
(***************************************************************************)
\* The direct parents of a role.
ParentsOf(a) == IF a \in DOMAIN parents THEN parents[a] ELSE {}

\* The roles reachable from the roles of S along parent edges, S included.
RECURSIVE Closure(_)
Closure(S) ==
    LET T == S \cup UNION {ParentsOf(a) : a \in S}
    IN  IF T = S THEN S ELSE Closure(T)

\* The role itself and its ancestors.
SelfAndAncestors(id) == Closure({id})

\* No role is its own ancestor.
Acyclic == \A a \in Ids : a \notin Closure(ParentsOf(a))

\* The last call has just built the graph of this state.  Every graph the
\* engine reaches is first seen in such a state (or in the initial one), so
\* what holds of the graph in these states holds of it in all.
NewGraph ==
    /\ last.err = NoErr
    /\ last.op \in {"New", "Add", "Remove", "SetParents", "SetParent",
                    "RemoveParent"}

\* The role exists and it, or one of its ancestors, directly grants p.
Inherits(id, p) ==
    /\ id \in DOMAIN roles
    /\ \E a \in SelfAndAncestors(id) :
          a \in DOMAIN roles /\ Permit(roles[a], p)

(***************************************************************************)
(* C1.  While the parent graph is acyclic, IsGranted(A, P, nil) returns    *)
(* true exactly when A exists and A or one of its ancestors directly       *)
(* grants P: one granting branch is enough, and a grant held only by a     *)
(* descendant of A does not count.                                         *)
(***************************************************************************)
C1_GrantIsReachability ==
    Acyclic =>
       /\ NewGraph =>
             \A id \in Ids : \A p \in Perms :
                isGranted(id, p, "nil") = {Bool(Inherits(id, p))}
       /\ (last.op = "IsGranted" /\ last.assert = "nil")
             => last.ok = Bool(Inherits(last.id, last.p))

\* IsGranted has answered true for a role of a diamond: it has two parents,
\* one grants the permission, the other does not, nor does the role itself.
C1_Witness ==
    /\ last.op = "IsGranted" /\ last.assert = "nil" /\ last.ok = "true"
    /\ Acyclic
    /\ last.id \in DOMAIN parents
    /\ ~Permit(roles[last.id], last.p)
    /\ \E b \in parents[last.id] : \E c \in parents[last.id] :
          /\ b # c
          /\ Permit(roles[b], last.p)
          /\ ~Permit(roles[c], last.p)
          /\ ~Inherits(c, last.p)

(***************************************************************************)
(* C2.  On a role id that is not in the role store, Get, GetParents,       *)
(* SetParent, SetParents and RemoveParent fail with ErrRoleNotExist, and   *)
(* IsGranted returns false for every permission and hook, with no error.   *)
(***************************************************************************)
C2_AbsentRole ==
    /\ NewGraph =>
          \A id \in Ids \ DOMAIN roles :
             /\ GetParentsErr(id) = ErrRoleNotExist
             /\ \A p \in Perms : \A assert \in Hooks :
                   isGranted(id, p, assert) = {"false"}
    /\ last.id \notin DOMAIN was.roles =>
          /\ last.op \in {"Get", "GetParents", "SetParent", "SetParents",
                          "RemoveParent"}
                => last.err = ErrRoleNotExist
          /\ last.op = "IsGranted" => last.ok = "false" /\ last.err = NoErr
    /\ (last.op \in {"SetParent", "RemoveParent"}
           /\ last.parent \notin DOMAIN was.roles)
          => last.err = ErrRoleNotExist
    /\ (last.op = "SetParents"
           /\ Range(last.parentsArg) \ DOMAIN was.roles # {})
          => last.err = ErrRoleNotExist

\* RemoveParent has failed on a role that was removed from the store, with a
\* parent that exists.
C2_Witness ==
    /\ last.op = "RemoveParent"
    /\ last.err = ErrRoleNotExist
    /\ last.id \notin DOMAIN roles
    /\ last.parent \in DOMAIN roles

(***************************************************************************)
(* C3.  A hook that returns false makes IsGranted return false even when   *)
(* the role or an ancestor grants the permission; a hook that returns true *)
(* grants nothing by itself: the result is that of the nil hook.           *)
(***************************************************************************)
C3_HookIsVetoOnly ==
    /\ NewGraph =>
          \A id \in Ids : \A p \in Perms :
             /\ isGranted(id, p, "deny") = {"false"}
             /\ isGranted(id, p, "allow") = recursionCheck(id, p, 0)
    /\ last.op = "IsGranted" =>
          /\ last.assert = "deny" => last.ok = "false"
          /\ last.assert = "allow" => last.ok \in recursionCheck(last.id, last.p, 0)
          /\ (last.assert = "allow" /\ Acyclic)
                => last.ok = Bool(Inherits(last.id, last.p))

\* IsGranted has answered false under a vetoing hook for a permission the
\* role inherits from a parent.
C3_Witness ==
    /\ last.op = "IsGranted" /\ last.assert = "deny" /\ last.ok = "false"
    /\ Acyclic
    /\ Inherits(last.id, last.p)
    /\ ~Permit(roles[last.id], last.p)

(***************************************************************************)
(* C4.  A successful Remove(id) leaves, in one step, id out of the role    *)
(* store, id without a bucket and id in no other role's parent set; every  *)
(* edge that does not involve id is as before.                             *)
(***************************************************************************)
C4_RemoveScrubs ==
    (last.op = "Remove" /\ last.err = NoErr) =>
       /\ last.id \in DOMAIN was.roles
       /\ last.id \notin DOMAIN roles
       /\ last.id \notin DOMAIN parents
       /\ \A a \in DOMAIN parents : last.id \notin parents[a]
       /\ \A a \in DOMAIN roles : \A out \in GetParentsOut(a) :
             last.id \notin Range(out)
       /\ DOMAIN roles = DOMAIN was.roles \ {last.id}
       /\ \A a \in DOMAIN roles : roles[a] = was.roles[a]
       /\ DOMAIN parents = DOMAIN was.parents \ {last.id}
       /\ \A a \in DOMAIN parents : parents[a] = was.parents[a] \ {last.id}

\* Remove has deleted a role that was a parent of another role and had a
\* bucket of its own; the other role keeps a second parent.
C4_Witness ==
    /\ last.op = "Remove" /\ last.err = NoErr
    /\ last.id \in DOMAIN was.parents
    /\ \E a \in DOMAIN parents :
          /\ last.id \in was.parents[a]
          /\ parents[a] # {}

(***************************************************************************)
(* C5.  A call of Add, Remove, SetParents, SetParent or RemoveParent that  *)
(* returns an error leaves the role store and every parent set as they     *)
(* were: SetParents with a missing parent in the batch adds none of the    *)
(* parents and creates no bucket.                                          *)
(***************************************************************************)
C5_ErrorMeansNoChange ==
    (last.op \in {"Add", "Remove", "SetParents", "SetParent", "RemoveParent"}
        /\ last.err # NoErr)
       => roles = was.roles /\ parents = was.parents

\* SetParents has failed on an existing role without a bucket, given an
\* existing parent followed by a missing one.
C5_Witness ==
    /\ last.op = "SetParents" /\ last.err = ErrRoleNotExist
    /\ last.id \in DOMAIN roles
    /\ last.id \notin DOMAIN parents
    /\ Len(last.parentsArg) = 2
    /\ last.parentsArg[1] \in DOMAIN roles
    /\ last.parentsArg[2] \notin DOMAIN roles

(***************************************************************************)
(* C6.  Add with an identifier already in the store fails with             *)
(* ErrRoleExist and leaves the stored role and all edges as they were; Add *)
(* with a new identifier inserts that role and changes nothing else.       *)
(***************************************************************************)
C6_AddOnce ==
    last.op = "Add" =>
       IF last.id \in DOMAIN was.roles
       THEN /\ last.err = ErrRoleExist
            /\ roles = was.roles
            /\ parents = was.parents
       ELSE /\ last.err = NoErr
            /\ DOMAIN roles = DOMAIN was.roles \cup {last.id}
            /\ roles[last.id] = last.r
            /\ \A a \in DOMAIN was.roles : roles[a] = was.roles[a]
            /\ parents = was.parents

\* Add has failed on an identifier whose stored role differs from the one
\* offered.
C6_Witness ==
    /\ last.op = "Add" /\ last.err = ErrRoleExist
    /\ last.id \in DOMAIN roles
    /\ roles[last.id] # last.r

\* The parent set a role had when the last call began.
WasParentsOf(a) == IF a \in DOMAIN was.parents THEN was.parents[a] ELSE {}

(***************************************************************************)
(* C7.  A successful SetParents(id, parents) makes id's parent set its     *)
(* previous one united with parents, a successful SetParent(id, parent)    *)
(* adds the one edge; both leave the other parent sets and the role store  *)
(* alone, and SetParent of an edge that exists changes nothing.            *)
(***************************************************************************)
C7_SetParentsIsUnion ==
    (last.op \in {"SetParents", "SetParent"} /\ last.err = NoErr) =>
       LET added == IF last.op = "SetParent" THEN {last.parent}
                    ELSE Range(last.parentsArg)
       IN  /\ roles = was.roles
           /\ DOMAIN parents = DOMAIN was.parents \cup {last.id}
           /\ parents[last.id] = WasParentsOf(last.id) \cup added
           /\ \A a \in DOMAIN parents \ {last.id} :
                 parents[a] = was.parents[a]
           /\ (last.op = "SetParent" /\ last.parent \in WasParentsOf(last.id))
                 => parents = was.parents

\* SetParents has succeeded on a role that keeps a parent the new list does
\* not name.
C7_Witness ==
    /\ last.op = "SetParents" /\ last.err = NoErr
    /\ last.parentsArg # <<>>
    /\ WasParentsOf(last.id) \ Range(last.parentsArg) # {}
    /\ Range(last.parentsArg) \ WasParentsOf(last.id) # {}

(***************************************************************************)
(* C8.  With id and parent both in the store, RemoveParent(id, parent)     *)
(* returns no error whether or not the edge existed; afterwards parent is  *)
(* not a parent of id and every other edge is as before.  After            *)
(* SetParent(A, B) and RemoveParent(A, B) on a role with no other parent,  *)
(* GetParents(A) returns an empty result and no error.                     *)
(***************************************************************************)
C8_RemoveParent ==
    /\ (last.op = "RemoveParent"
           /\ last.id \in DOMAIN was.roles /\ last.parent \in DOMAIN was.roles)
          => /\ last.err = NoErr
             /\ roles = was.roles
             /\ DOMAIN parents = DOMAIN was.parents
             /\ last.parent \notin ParentsOf(last.id)
             /\ ParentsOf(last.id) = WasParentsOf(last.id) \ {last.parent}
             /\ \A a \in DOMAIN parents \ {last.id} :
                   parents[a] = was.parents[a]
             /\ WasParentsOf(last.id) \subseteq {last.parent}
                   => /\ GetParentsOut(last.id) = {<<>>}
                      /\ GetParentsErr(last.id) = NoErr
    /\ (last.op = "GetParents" /\ last.id \in DOMAIN roles
           /\ ParentsOf(last.id) = {})
          => last.out = <<>> /\ last.err = NoErr

\* RemoveParent has removed the only parent of a role.
C8_Witness ==
    /\ last.op = "RemoveParent" /\ last.err = NoErr
    /\ WasParentsOf(last.id) = {last.parent}
    /\ last.id \in DOMAIN parents
    /\ parents[last.id] = {}

(***************************************************************************)
(* C9.  If an existing role A directly grants P, IsGranted(A, P, nil)      *)
(* returns true whatever A's parents are, a parent cycle included.         *)
(***************************************************************************)
C9_DirectGrant ==
    /\ NewGraph =>
          \A id \in DOMAIN roles : \A p \in Perms :
             Permit(roles[id], p) => isGranted(id, p, "nil") = {"true"}
    /\ (last.op = "IsGranted" /\ last.assert = "nil"
           /\ last.id \in DOMAIN roles /\ Permit(roles[last.id], last.p))
          => last.ok = "true"

\* IsGranted has answered true for a role that grants the permission and is
\* its own parent.
C9_Witness ==
    /\ last.op = "IsGranted" /\ last.assert = "nil" /\ last.ok = "true"
    /\ Permit(roles[last.id], last.p)
    /\ last.id \in ParentsOf(last.id)

(***************************************************************************)
(* C10.  In every state the mutations can reach, a call of IsGranted       *)
(* returns a boolean: it never fails and never runs without end.           *)
(***************************************************************************)
C10_IsGrantedReturns ==
    last.op = "IsGranted" => last.ok \in {"true", "false"}

\* The role is its own ancestor.
OnCycle(id) == id \in Closure(ParentsOf(id))

(***************************************************************************)
(* C16.  The parent graph is not kept acyclic: SetParent and SetParents    *)
(* accept an edge that closes a cycle, and on a role of a cycle IsGranted, *)
(* for a permission that no role reachable from it grants, recurses        *)
(* without bound and does not return.                                      *)
(***************************************************************************)
C16_CycleRecursesWithoutBound ==
    /\ (last.op = "SetParent"
           /\ {last.id, last.parent} \subseteq DOMAIN was.roles)
          => last.err = NoErr /\ last.parent \in ParentsOf(last.id)
    /\ (last.op = "SetParents"
           /\ {last.id} \cup Range(last.parentsArg) \subseteq DOMAIN was.roles)
          => last.err = NoErr /\ Range(last.parentsArg) \subseteq ParentsOf(last.id)
    /\ NewGraph =>
          \A id \in DOMAIN roles : \A p \in Perms :
             (OnCycle(id) /\ ~Inherits(id, p))
                => isGranted(id, p, "nil") = {StackOverflow}
    /\ (last.op = "IsGranted" /\ last.assert = "nil"
           /\ OnCycle(last.id) /\ ~Inherits(last.id, last.p))
          => last.ok = StackOverflow

\* IsGranted has been called on one of two roles that are each other's
\* parent, for a permission neither grants, and has not returned.
C16_Witness ==
    /\ last.op = "IsGranted" /\ last.assert = "nil"
    /\ last.ok = StackOverflow
    /\ last.id \notin ParentsOf(last.id)
    /\ \E b \in ParentsOf(last.id) : last.id \in ParentsOf(b)

(***************************************************************************)
(* C19.  In every state the mutations reach, every role id that owns a     *)
(* bucket and every role id in a parent set is in the role store: no edge  *)
(* dangles, so the traversal's check that a parent exists never fails.     *)
(***************************************************************************)
C19_NoDanglingEdge ==
    /\ DOMAIN parents \subseteq DOMAIN roles
    /\ \A rid \in DOMAIN parents : parents[rid] \subseteq DOMAIN roles

\* Remove has deleted a role that had a parent of its own and was the parent
\* of a role that is still there.
C19_Witness ==
    /\ last.op = "Remove" /\ last.err = NoErr
    /\ last.id \in DOMAIN was.parents
    /\ was.parents[last.id] # {}
    /\ \E a \in DOMAIN roles :
          a \in DOMAIN was.parents /\ last.id \in was.parents[a]

(***************************************************************************)
(* C20.  A role removed and added again under the same identifier starts   *)
(* with no inheritance: it has no parents, no role has it as a parent, it  *)
(* is granted exactly what its new definition grants, and no other role    *)
(* reaches it.                                                             *)
(***************************************************************************)
C20_ReAddStartsClean ==
    (last.op = "Add" /\ last.err = NoErr) =>
       /\ last.id \notin DOMAIN parents
       /\ GetParentsOut(last.id) = {<<>>}
       /\ GetParentsErr(last.id) = NoErr
       /\ \A a \in DOMAIN parents : last.id \notin parents[a]
       /\ \A a \in Ids \ {last.id} : last.id \notin SelfAndAncestors(a)
       /\ \A p \in Perms :
             isGranted(last.id, p, "nil") = {Bool(Permit(last.r, p))}

\* Add has stored again a role whose removal took edges with it, next to a
\* role that has kept its bucket.
C20_Witness ==
    /\ last.op = "Add" /\ last.err = NoErr
    /\ last.id \in gone
    /\ \E a \in DOMAIN parents : a # last.id

AsLocked(g) == roles = gs[g].snap.roles /\ parents = gs[g].snap.parents

\* The goroutine is in the read that its hook has called, and the Lock or
\* RLock of that read cannot return before the RUnlock of its own
\* IsGranted, which comes after the hook: its Lock waits for the readers to
\* leave and it is one of them, or a Lock of another goroutine waits for
\* them and keeps every new Lock and RLock out.
HookStuck(g) ==
    \/ gs[g].pc = "hookWait"
    \/ gs[g].pc = "hook" /\ mu.w = "pending"

(***************************************************************************)
(* C11.  A hook that IsGranted has invoked can call Get, GetParents and    *)
(* IsGranted on the engine without deadlock, whatever the other goroutines *)
(* do: the read it calls is never left waiting for a lock that only the    *)
(* return of the hook could free.                                          *)
(***************************************************************************)
C11_HookReadsNeverDeadlock ==
    \A g \in Procs : ~HookStuck(g)

(***************************************************************************)
(* C12.  Get, GetParents and IsGranted take the lock in shared mode only:  *)
(* a read in its critical section does not hold the lock exclusively, so   *)
(* reads are in their critical sections together, and a read that waits    *)
(* for the lock waits for a mutation.                                      *)
(***************************************************************************)
C12_ReadsTakeSharedLock ==
    \A g \in Procs :
       gs[g].c.op \in Reads =>
          /\ InCS(g) => ~(mu.w = "held" /\ mu.by = g)
          /\ gs[g].pc # "wait"
          /\ (gs[g].pc = "lock" /\ mu.w # "free") =>
                \E h \in Procs \ {g} : gs[h].c.op \in Mutations

(***************************************************************************)
(* C13.  A mutation holds the lock exclusively from its first read of the  *)
(* maps to its last write: while it is in its critical section no other    *)
(* goroutine is in one, the maps are as it found them until it writes, its *)
(* validation still holds when it writes, and what it leaves is its update *)
(* of what it found.                                                       *)
(***************************************************************************)
C13_MutationsExclude ==
    \A g \in Procs :
       (InCS(g) /\ gs[g].c.op \in Mutations) =>
          /\ mu.w = "held" /\ mu.by = g
          /\ \A h \in Procs \ {g} : ~InCS(h)
          /\ gs[g].pc \in {"in", "write"} => AsLocked(g)
          /\ gs[g].pc = "write" => ErrOf(roles, gs[g].c) = NoErr
          /\ gs[g].pc = "out" =>
                IF gs[g].c.err = NoErr
                THEN /\ roles = RolesAfter(gs[g].snap.roles, gs[g].c)
                     /\ parents = ParentsAfter(gs[g].snap.parents, gs[g].c)
                ELSE AsLocked(g)

\* A mutation is about to write while another mutation and then a read,
\* called meanwhile, are kept out.
C13_Witness ==
    \E g \in Procs : \E h \in Procs \ {g} :
       /\ gs[g].pc = "write"
       /\ gs[g].c.op = "SetParents"
       /\ gs[h].pc = "lock"
       /\ gs[h].c.op = "Remove"
       /\ gs[h].c.id \in Range(gs[g].c.parentsArg)

\* The parents of a in the parent map ps, and the roles reachable from the
\* roles of S along its edges, S included.
ParentsIn(ps, a) == IF a \in DOMAIN ps THEN ps[a] ELSE {}

RECURSIVE ClosureIn(_, _)
ClosureIn(ps, S) ==
    LET T == S \cup UNION {ParentsIn(ps, a) : a \in S}
    IN  IF T = S THEN S ELSE ClosureIn(ps, T)

\* In the graph of rs and ps the role exists and it, or one of its
\* ancestors, directly grants p.
InheritsIn(rs, ps, id, p) ==
    /\ id \in DOMAIN rs
    /\ \E a \in ClosureIn(ps, {id}) : a \in DOMAIN rs /\ Permit(rs[a], p)

\* What the call c of IsGranted answers on the graph of rs and ps.
AnswerIn(rs, ps, c) ==
    Bool(/\ c.assert \in {"nil"} \cup HookCalls
            \/ CallAssert(c.assert, c.id, c.p)
         /\ InheritsIn(rs, ps, c.id, c.p))

(***************************************************************************)
(* C14.  IsGranted answers from one state of the graph, the one it found   *)
(* when it got the lock: the maps stay as they were while it is in its     *)
(* critical section, what it returns is the answer on that graph, two      *)
(* calls that are in their critical sections together have found the same  *)
(* graph, and a call made after another call has returned finds the graph  *)
(* which that call left.                                                   *)
(***************************************************************************)
C14_OneGraphPerAnswer ==
    \A g \in Procs :
       gs[g].c.op = "IsGranted" =>
          /\ InCS(g) => AsLocked(g)
          /\ gs[g].pc = "out" =>
                gs[g].c.ok =
                   AnswerIn(gs[g].snap.roles, gs[g].snap.parents, gs[g].c)
          /\ \A h \in Procs \ {g} :
                /\ (InCS(g) /\ InCS(h) /\ gs[h].c.op = "IsGranted") =>
                      gs[g].snap = gs[h].snap
                /\ (InCS(g) /\ h \in gs[g].after) => gs[g].snap = gs[h].snap

\* IsGranted has found the grant of a parent while a Remove of that parent
\* waits for the lock; and IsGranted, called after a SetParent has returned,
\* has found the grant along the new edge.
C14_Witness ==
    \E g \in Procs : \E h \in Procs \ {g} :
       /\ gs[g].pc = "out"
       /\ gs[g].c.op = "IsGranted" /\ gs[g].c.id = "admin"
       /\ gs[g].c.ok = "true"
       /\ \/ /\ gs[h].pc = "wait"
             /\ gs[h].c.op = "Remove" /\ gs[h].c.id = "editor"
          \/ /\ h \in gs[g].after
             /\ gs[h].c.op = "SetParent" /\ gs[h].c.err = NoErr
             /\ gs[h].c.id = "admin" /\ gs[h].c.parent = "editor"

(***************************************************************************)
(* C17.  In one call of IsGranted with a hook, the hook is invoked once,   *)
(* with the role id and the permission of the call and before any lookup   *)
(* of a role; the traversal of the parents never invokes it again.         *)
(* Without a hook there is nothing to invoke.                              *)
(***************************************************************************)
C17_HookOncePerCall ==
    \A g \in Procs :
       gs[g].c.op = "IsGranted" =>
          /\ gs[g].nhook <= 1
          /\ gs[g].c.assert = "nil" => gs[g].nhook = 0
          /\ (/\ gs[g].c.assert # "nil"
              /\ gs[g].pc \in {"hook", "hookWait", "hookIn", "walk", "out",
                               "dead"}) =>
                /\ gs[g].nhook = 1
                /\ gs[g].hookArg = <<gs[g].c.id, gs[g].c.p>>
                /\ gs[g].hookAt = 0

\* The traversal, after a hook that returned true, is in the call on a
\* parent.
C17_Witness ==
    \E g \in Procs :
       /\ gs[g].pc = "walk"
       /\ gs[g].c.assert = "allow"
       /\ Len(gs[g].stack) >= 2
       /\ gs[g].nlook >= 2

\* The read locks that the goroutines hold: that of Get or IsGranted, and
\* that of the read a hook has called.
ReadLocksHeld ==
    Cardinality({g \in Procs : InCS(g) /\ LockKind(gs[g].c.op) = "RLock"})
    + Cardinality({g \in Procs :
                      /\ gs[g].pc = "hookIn"
                      /\ LockKind(gs[g].c.assert) = "RLock"})

(***************************************************************************)
(* C18.  A call takes the lock once: IsGranted at its top, and never again *)
(* in the traversal, whatever its depth.  Every call gives the lock back   *)
(* when it returns, with or without an error: the mutex counts the read    *)
(* locks of the calls in progress and no more, and it is free when no call *)
(* is in progress.                                                         *)
(***************************************************************************)
C18_LockOnceAndReleased ==
    /\ \A g \in Procs :
          gs[g].nlock = IF InCS(g) \/ gs[g].pc = "dead" THEN 1 ELSE 0
    /\ Running => mu.r = ReadLocksHeld
    /\ (mu.w = "held") =>
          \E g \in Procs : mu.by = g /\ (InCS(g) \/ gs[g].pc = "dead")
    /\ (\A g \in Procs : gs[g].pc \in {"idle", "done"}) => mu = Unlocked

\* Both calls have returned, a mutation with an error and an IsGranted that
\* went into a parent and found the grant there.
C18_Witness ==
    \E g \in Procs : \E h \in Procs \ {g} :
       /\ gs[g].pc = "done" /\ gs[h].pc = "done"
       /\ gs[g].c.op \in Mutations /\ gs[g].c.err # NoErr
       /\ gs[h].c.op = "IsGranted" /\ gs[h].c.id = "admin"
       /\ gs[h].c.ok = "true"

====
